---- MODULE Spec2Model ----
(***************************************************************************)
(* V3Force: conversion of forceable signals and lowering of force/release  *)
(* statements (src/src/V3Force.cpp).                                       *)
(*                                                                         *)
(* The netlist is one module with two scopes.  Declarations are AstVar     *)
(* records, scope instances AstVarScope records, expressions and           *)
(* statements are records tagged by their node type.  The visitor is a     *)
(* state machine that walks scope 1's variable scopes, then the statements *)
(* of scope 1's procedural block, then scope 2's variable scopes, and      *)
(* finally retargets the references of the whole netlist (Spec).  A second  *)
(* specification, SimSpec, evaluates the statements the pass generates     *)
(* for a process that forces, releases, writes and reads one signal.       *)
(***************************************************************************)
EXTENDS Integers, Sequences, FiniteSets, TLC

\* ------------------------------------------------------------------ bounds
MaxStmts == 2      \* statements in the procedural block of the input netlist
NumElems == 2      \* elements of an unpacked array
RangedWidth == 2   \* bits of a ranged (vector) signal

\* ------------------------------------------------------------- data types
Range(s) == {s[i] : i \in DOMAIN s}

BitDType == [kind |-> "basic", ranged |-> FALSE, width |-> 1]
RangedDType(w) == [kind |-> "basic", ranged |-> TRUE, width |-> w]
UnpackArrayDType(sub, n) == [kind |-> "unpack", sub |-> sub, elems |-> n]

IsUnpack(dt) == dt.kind = "unpack"

\* basicp(): the basic type of a type, through the array's element type
basicp(dt) == IF IsUnpack(dt) THEN dt.sub ELSE dt

\* width(): an array has the width of its element
WidthOf(dt) == basicp(dt).width

isRangedDType(dt) == basicp(dt).ranged

AstVar(varType, name, dtype) ==
    [name |-> name, varType |-> varType, dtype |-> dtype,
     isForceable |-> FALSE, isPrimaryIO |-> FALSE, isContinuously |-> FALSE,
     sigUserRWPublic |-> FALSE]

AstVarScope(scopep, varp) == [varp |-> varp, scopep |-> scopep]

\* ------------------------------------------------------------ expressions
AstVarRef(vscp, access) ==
    [type |-> "VarRef", varScopep |-> vscp, access |-> access, user2 |-> 0]
AstConst(num, width) == [type |-> "Const", num |-> num, width |-> width]
AstArraySel(fromp, bitp) == [type |-> "ArraySel", fromp |-> fromp, bitp |-> bitp]
AstConcat(lhsp, rhsp) == [type |-> "Concat", lhsp |-> lhsp, rhsp |-> rhsp]
AstCond(condp, thenp, elsep) ==
    [type |-> "Cond", condp |-> condp, thenp |-> thenp, elsep |-> elsep]
AstAnd(lhsp, rhsp) == [type |-> "And", lhsp |-> lhsp, rhsp |-> rhsp]
AstOr(lhsp, rhsp) == [type |-> "Or", lhsp |-> lhsp, rhsp |-> rhsp]
AstNot(lhsp) == [type |-> "Not", lhsp |-> lhsp]
\* the part select fromp[lsbp +: widthp]
AstSel(fromp, lsbp, widthp) ==
    [type |-> "Sel", fromp |-> fromp, lsbp |-> lsbp, widthp |-> widthp]

\* an integer index becomes a 32 bit constant (AstArraySel's int constructor)
IndexConst(i) == AstConst(i, 32)

\* ------------------------------------------------------------- statements
AstAssignForce(lhsp, rhsp) == [type |-> "AssignForce", lhsp |-> lhsp, rhsp |-> rhsp]
AstRelease(lhsp) == [type |-> "Release", lhsp |-> lhsp]
AstAssign(lhsp, rhsp) == [type |-> "Assign", lhsp |-> lhsp, rhsp |-> rhsp]
AstAssignW(lhsp, rhsp) == [type |-> "AssignW", lhsp |-> lhsp, rhsp |-> rhsp]
AstActive(fileline, name, sens, stmtsp) ==
    [type |-> "Active", fileline |-> fileline, name |-> name, sens |-> sens,
     stmtsp |-> stmtsp]

\* ---------------------------------------------------------------- state
VARIABLES
    modVars,       \* the module's declarations (AstVar), in sibling order
    scopeVars,     \* per scope: its AstVarScope list, in sibling order
    scopeBlocks,   \* per scope: the AstActive blocks added by the pass
    stmts,         \* the statements of scope 1's procedural block
    fcVar,         \* AstVar::user1p -> ForceComponentsVar
    fcVsc,         \* AstVarScope::user1p -> ForceComponentsVarScope
    diags,         \* diagnostics reported so far
    got,           \* every (vscp, components) getForceComponents returned
    nAlloc,        \* number of ForceComponentsVarScope objects constructed
    input,         \* the statements of the netlist as given to the pass
    pc,            \* position of the visitor
    idx,           \* cursor in the list the visitor is walking
    mem,           \* evaluation: the value of every variable scope of scope 1
    last           \* evaluation: what has been executed since the last force

passVars == <<modVars, scopeVars, scopeBlocks, stmts, fcVar, fcVsc, diags, got,
              nAlloc, input, pc, idx>>
vars == <<modVars, scopeVars, scopeBlocks, stmts, fcVar, fcVsc, diags, got,
          nAlloc, input, pc, idx, mem, last>>

\* The tree and the visitor's members as one value, threaded through the
\* calls one handler makes.
World ==
    [modVars |-> modVars, scopeVars |-> scopeVars, scopeBlocks |-> scopeBlocks,
     fcVar |-> fcVar, fcVsc |-> fcVsc, diags |-> diags, got |-> got,
     nAlloc |-> nAlloc]

VarNamed(w, name) == CHOOSE v \in Range(w.modVars) : v.name = name

VarOf(w, vscp) == VarNamed(w, vscp.varp)

\* addNextHere: splice the list 'news' right after the first element equal to 'at'
addNextHere(list, at, news) ==
    LET p == CHOOSE i \in DOMAIN list : list[i] = at /\ \A j \in 1..(i-1) : list[j] # at
    IN SubSeq(list, 1, p) \o news \o SubSeq(list, p + 1, Len(list))

\* ------------------------------------------------- shadow-state allocator
\* ForceComponentsVar without the report for a primary input/output
ForceComponentsVarNoWarn(w, varp) ==
    LET v == VarNamed(w, varp)
        rd == AstVar("WIRE", varp \o "__VforceRd", v.dtype)
        val == AstVar("VAR", varp \o "__VforceVal", v.dtype)
        en == AstVar("VAR", varp \o "__VforceEn",
                     IF isRangedDType(v.dtype) \/ IsUnpack(v.dtype)
                     THEN v.dtype ELSE BitDType)
        fcv == [m_rdVarp |-> rd.name, m_valVarp |-> val.name, m_enVarp |-> en.name]
    IN [w EXCEPT
          !.modVars = addNextHere(@, v, <<rd, en, val>>),
          !.fcVar = (varp :> fcv) @@ @]

\* struct ForceComponentsVar: the three declarations of a signal, spliced right
\* after the signal; forcing a primary input/output is reported as unsupported.
ForceComponentsVar(w, varp) ==
    LET v == VarNamed(w, varp)
        rd == AstVar("WIRE", varp \o "__VforceRd", v.dtype)
        val == AstVar("VAR", varp \o "__VforceVal", v.dtype)
        en == AstVar("VAR", varp \o "__VforceEn",
                     IF isRangedDType(v.dtype) \/ IsUnpack(v.dtype)
                     THEN v.dtype ELSE BitDType)
        fcv == [m_rdVarp |-> rd.name, m_valVarp |-> val.name, m_enVarp |-> en.name]
    IN [w EXCEPT
          !.modVars = addNextHere(@, v, <<rd, en, val>>),
          !.fcVar = (varp :> fcv) @@ @,
          !.diags = IF v.isPrimaryIO
                    THEN Append(@, [code |-> "E_UNSUPPORTED", varp |-> varp])
                    ELSE @]

\* The initialization of the enable signal: one assignment, or one per element
\* of an unpacked array.
ForceInitStmts(w, vscp, enVscp) ==
    LET zero == AstConst(0, WidthOf(VarOf(w, enVscp).dtype))
        lhsp == AstVarRef(enVscp, "WRITE")
    IN IF IsUnpack(VarOf(w, vscp).dtype)
       THEN [i \in 1..VarOf(w, enVscp).dtype.elems |->
                AstAssign(AstArraySel(lhsp, IndexConst(i - 1)), zero)]
       ELSE <<AstAssign(lhsp, zero)>>

\* One right hand side of the combinational override: the element 'index' of an
\* unpacked array, or the whole signal.
ForceCombRhs(dt, vscp, enVscp, valVscp, index) ==
    LET origp == [AstVarRef(vscp, "READ") EXCEPT !.user2 = 1]
        enp == AstVarRef(enVscp, "READ")
        valp == AstVarRef(valVscp, "READ")
        readp == AstVarRef(vscp, "READ")
    IN IF IsUnpack(dt)
       THEN IF isRangedDType(dt)
            THEN AstOr(AstAnd(AstArraySel(enp, index), AstArraySel(valp, index)),
                       AstAnd(AstNot(AstArraySel(enp, index)), AstArraySel(readp, index)))
            ELSE AstCond(AstArraySel(enp, index), AstArraySel(valp, index),
                         AstArraySel(readp, index))
       ELSE IF isRangedDType(dt)
       THEN AstOr(AstAnd(enp, valp), AstAnd(AstNot(enp), origp))
       ELSE AstCond(enp, valp, readp)

\* The continuous assignments of the combinational override.
ForceCombStmts(dt, elems, vscp, enVscp, valVscp) ==
    IF IsUnpack(dt)
    THEN [i \in 1..elems |->
            AstAssignW(AstArraySel(AstVarRef(vscp, "WRITE"), IndexConst(i - 1)),
                       ForceCombRhs(dt, vscp, enVscp, valVscp, IndexConst(i - 1)))]
    ELSE <<AstAssignW(AstVarRef(vscp, "WRITE"),
                      ForceCombRhs(dt, vscp, enVscp, valVscp, IndexConst(0)))>>

\* struct ForceComponentsVarScope: the three scope instances, spliced right
\* after the signal's instance, plus the "force-init" and "force-comb" blocks
\* added to the instance's scope.
ForceComponentsVarScope(w, vscp) ==
    LET fcv == w.fcVar[vscp.varp]
        rdVscp == AstVarScope(vscp.scopep, fcv.m_rdVarp)
        enVscp == AstVarScope(vscp.scopep, fcv.m_enVarp)
        valVscp == AstVarScope(vscp.scopep, fcv.m_valVarp)
        obj == [m_rdVscp |-> rdVscp, m_enVscp |-> enVscp, m_valVscp |-> valVscp,
                id |-> w.nAlloc + 1]
        flp == vscp.varp
        initp == AstActive(flp, "force-init", "Initial",
                           ForceInitStmts(w, vscp, enVscp))
        combp == AstActive(flp, "force-comb", "Combo",
                           ForceCombStmts(VarOf(w, vscp).dtype,
                                          IF IsUnpack(VarOf(w, enVscp).dtype)
                                          THEN VarOf(w, enVscp).dtype.elems ELSE 1,
                                          vscp, enVscp, valVscp))
    IN [w EXCEPT
          !.scopeVars[vscp.scopep] = addNextHere(@, vscp, <<rdVscp, enVscp, valVscp>>),
          !.scopeBlocks[vscp.scopep] = @ \o <<initp, combp>>,
          !.fcVsc = (vscp :> obj) @@ @,
          !.nAlloc = @ + 1]

\* AstUser1Allocator<AstVar, ForceComponentsVar>::operator(): the object stored
\* in the node's user1p, constructed on the first call.
m_forceComponentsVar(w, varp) ==
    IF varp \in DOMAIN w.fcVar THEN w ELSE ForceComponentsVar(w, varp)

\* AstUser1Allocator<AstVarScope, ForceComponentsVarScope>::operator()
m_forceComponentsVarScope(w, vscp) ==
    IF vscp \in DOMAIN w.fcVsc THEN w ELSE ForceComponentsVarScope(w, vscp)

\* AstUser1Allocator::tryGet
tryGet(w, vscp) == vscp \in DOMAIN w.fcVsc

\* The components a call of getForceComponents returned, recorded.
returned(w, vscp) == [w EXCEPT !.got = @ \cup {<<vscp, w.fcVsc[vscp]>>}]

\* getForceComponents with a ForceComponentsVar constructed on every call
getForceComponentsNoVarCache(w, vscp) ==
    returned(m_forceComponentsVarScope(ForceComponentsVar(w, vscp.varp), vscp), vscp)

\* getForceComponents: the world after the call; the components returned are
\* fcVsc[vscp] of that world.
getForceComponents(w, vscp) ==
    returned(m_forceComponentsVarScope(m_forceComponentsVar(w, vscp.varp), vscp), vscp)

\* ------------------------------------------------------- tree traversal
\* The operands of a node, in the order a traversal visits them.
childFields(e) ==
    CASE e.type = "ArraySel" -> <<"fromp", "bitp">>
      [] e.type = "Sel" -> <<"fromp", "lsbp", "widthp">>
      [] e.type = "Cond" -> <<"condp", "thenp", "elsep">>
      [] e.type = "Not" -> <<"lhsp">>
      [] e.type \in {"And", "Or", "Concat"} -> <<"lhsp", "rhsp">>
      [] OTHER -> <<>>

children(e) == [i \in DOMAIN childFields(e) |-> e[childFields(e)[i]]]

\* The node with its operands replaced by 'ch'.
withChildren(e, ch) ==
    [f \in DOMAIN e |->
        IF f \in Range(childFields(e))
        THEN ch[CHOOSE i \in DOMAIN childFields(e) : childFields(e)[i] = f]
        ELSE e[f]]

\* dtypep() of an expression
RECURSIVE ExprDType(_, _)
ExprDType(w, e) ==
    CASE e.type = "VarRef" -> VarOf(w, e.varScopep).dtype
      [] e.type = "ArraySel" -> ExprDType(w, e.fromp).sub
      [] e.type = "Const" -> RangedDType(e.width)
      [] e.type = "Sel" -> RangedDType(e.widthp.num)
      [] e.type = "Concat" ->
            LET ws == [i \in DOMAIN children(e) |-> WidthOf(ExprDType(w, children(e)[i]))]
            IN RangedDType(ws[1] + ws[2])
      [] OTHER -> ExprDType(w, children(e)[Len(children(e))])

RECURSIVE Pow2(_)
Pow2(n) == IF n = 0 THEN 1 ELSE 2 * Pow2(n - 1)

\* V3Number::setAllBits1 / setAllBits0 on a number of the given width
AllBits1(width) == AstConst(Pow2(width) - 1, width)
AllBits0(width) == AstConst(0, width)

\* ------------------------------------------------------ force lowering
\* The lambda of transformWritenVarScopes: a reference that writes a variable
\* becomes a write of the component 'f' of the variable's force components.
writeComponent(w1, vscp, f) == [node |-> AstVarRef(w1.fcVsc[vscp][f], "WRITE"), w |-> w1]

transformRef(w, refp, f) ==
    IF refp.access # "WRITE" THEN [node |-> refp, w |-> w]
    ELSE writeComponent(getForceComponents(w, refp.varScopep), refp.varScopep, f)

\* The lambda of the foreach over the left hand side of a resetRdp: a net is
\* reset through its read signal, a variable is written itself; the reference
\* to an unpacked array becomes a select of the element 'index'.
releaseTarget(w, dt, newVscp, index) ==
    [node |-> IF IsUnpack(dt) THEN AstArraySel(AstVarRef(newVscp, "WRITE"), index)
              ELSE AstVarRef(newVscp, "WRITE"),
     w |-> w]

releaseRdTarget(w1, vscp, index) ==
    releaseTarget(w1, VarOf(w1, vscp).dtype, w1.fcVsc[vscp].m_rdVscp, index)

releaseLhsRef(w, refp, index) ==
    IF refp.access # "WRITE" THEN [node |-> refp, w |-> w]
    ELSE IF VarOf(w, refp.varScopep).isContinuously
    THEN releaseRdTarget(getForceComponents(w, refp.varScopep), refp.varScopep, index)
    ELSE releaseTarget(w, VarOf(w, refp.varScopep).dtype, refp.varScopep, index)

\* The lambda of the foreach over the right hand side of a resetRdp: a net
\* reads itself, a variable reads the override expression of its enable, its
\* value and itself.
releaseValue(w1, vscp, index) ==
    LET newpRefp == [AstVarRef(vscp, "READ") EXCEPT !.user2 = 1]
        dt == VarOf(w1, vscp).dtype
        enp == AstVarRef(w1.fcVsc[vscp].m_enVscp, "READ")
        valp == AstVarRef(w1.fcVsc[vscp].m_valVscp, "READ")
    IN [node |->
          IF IsUnpack(dt)
          THEN IF isRangedDType(dt)
               THEN AstOr(AstAnd(AstArraySel(enp, index), AstArraySel(valp, index)),
                          AstAnd(AstNot(AstArraySel(enp, index)),
                                 AstArraySel(newpRefp, index)))
               ELSE AstCond(AstArraySel(enp, index), AstArraySel(valp, index),
                            AstArraySel(newpRefp, index))
          ELSE IF isRangedDType(dt)
          THEN AstOr(AstAnd(enp, valp), AstAnd(AstNot(enp), newpRefp))
          ELSE AstCond(enp, valp, newpRefp),
        w |-> w1]

releaseRhsRef(w, refp, index) ==
    IF refp.access # "WRITE" THEN [node |-> refp, w |-> w]
    ELSE IF VarOf(w, refp.varScopep).isContinuously
    THEN [node |-> [AstVarRef(refp.varScopep, "READ") EXCEPT !.user2 = 1], w |-> w]
    ELSE releaseValue(getForceComponents(w, refp.varScopep), refp.varScopep, index)

\* The lambda a foreach applies: 'mode' is the component of
\* transformWritenVarScopes, or the side of the resetRdp.
applyLambda(w, refp, mode, index) ==
    CASE mode = "releaseLhs" -> releaseLhsRef(w, refp, index)
      [] mode = "releaseRhs" -> releaseRhsRef(w, refp, index)
      [] OTHER -> transformRef(w, refp, mode)

prepend(node, r) == [nodes |-> <<node>> \o r.nodes, w |-> r.w]

rebuild(nodep, r) == [node |-> withChildren(nodep, r.nodes), w |-> r.w]

\* AstNode::foreach over AstNodeVarRef, applied to a list of sibling nodes: the
\* lambda replaces each reference, a replacement is not visited again.
RECURSIVE foreachRef(_, _, _, _)
RECURSIVE foreachNode(_, _, _, _)
RECURSIVE foreachRest(_, _, _, _)
foreachRef(w, nodes, mode, index) ==
    IF nodes = <<>> THEN [nodes |-> <<>>, w |-> w]
    ELSE foreachRest(foreachNode(w, Head(nodes), mode, index), Tail(nodes), mode, index)

foreachNode(w, nodep, mode, index) ==
    IF nodep.type = "VarRef" THEN applyLambda(w, nodep, mode, index)
    ELSE rebuild(nodep, foreachRef(w, children(nodep), mode, index))

foreachRest(first, rest, mode, index) ==
    prepend(first.node, foreachRef(first.w, rest, mode, index))

\* transformWritenVarScopes: every reference of 'nodep' that writes a variable
\* is replaced by a write of the component 'f' of getForceComponents of the
\* referenced variable scope.  Returns the new expression and the world.
transformWritenVarScopes(w, nodep, f) == foreachNode(w, nodep, f, IndexConst(0))

prependStmt(stmt, r) == [stmts |-> <<stmt>> \o r.stmts, w |-> r.w]

\* The assignments of a chain, each with its left hand side retargeted to the
\* component named at its position in 'fs'.
RECURSIVE transformAssigns(_, _, _)
RECURSIVE transformAssignsRest(_, _, _, _)
transformAssigns(w, assigns, fs) ==
    IF assigns = <<>> THEN [stmts |-> <<>>, w |-> w]
    ELSE transformAssignsRest(transformWritenVarScopes(w, Head(assigns).lhsp, Head(fs)),
                              Head(assigns).rhsp, Tail(assigns), Tail(fs))

transformAssignsRest(t, rhsp, assigns, fs) ==
    prependStmt(AstAssign(t.node, rhsp), transformAssigns(t.w, assigns, fs))

\* The width of the enable constant of an lvalue of type dt
enableWidth(dt) == IF isRangedDType(dt) THEN WidthOf(dt) ELSE 1

\* visit(AstAssignForce*) with the read signal not set
visitAssignForceNoRd(w, nodep) ==
    transformAssigns(w,
        <<AstAssign(nodep.lhsp, AllBits1(enableWidth(ExprDType(w, nodep.lhsp)))),
          AstAssign(nodep.lhsp, nodep.rhsp)>>,
        <<"m_enVscp", "m_valVscp">>)

\* visit(AstAssignForce*): the statements that replace the force (setEnp,
\* setValp, setRdp), and the world
visitAssignForce(w, nodep) ==
    transformAssigns(w,
        <<AstAssign(nodep.lhsp, AllBits1(enableWidth(ExprDType(w, nodep.lhsp)))),
          AstAssign(nodep.lhsp, nodep.rhsp),
          AstAssign(nodep.lhsp, nodep.rhsp)>>,
        <<"m_enVscp", "m_valVscp", "m_rdVscp">>)

\* ---------------------------------------------------- release lowering
\* The enable clears before their left hand sides are retargeted (resetEnp).
resetEnpChain(dt, lhsp) ==
    IF IsUnpack(dt)
    THEN [i \in 1..dt.elems |->
            AstAssign(AstArraySel(lhsp, IndexConst(i - 1)), AllBits0(enableWidth(dt)))]
    ELSE <<AstAssign(lhsp, AllBits0(enableWidth(dt)))>>

\* The loop over resetRdp_vec, from element k to element count: the index is
\* the released element's when the lvalue is an element select, else the
\* running array_sel.
RECURSIVE resetRdpLoop(_, _, _, _, _)
RECURSIVE resetRdpRhs(_, _, _, _, _, _)
RECURSIVE resetRdpNext(_, _, _, _, _, _)
resetRdpLoop(w, lhsp, astNodeExprp, k, count) ==
    IF k > count THEN [stmts |-> <<>>, w |-> w]
    ELSE resetRdpRhs(foreachNode(w, astNodeExprp, "releaseLhs",
                                 IF lhsp.type = "ArraySel" THEN lhsp.bitp
                                 ELSE IndexConst(k - 1)),
                     IF lhsp.type = "ArraySel" THEN lhsp.bitp ELSE IndexConst(k - 1),
                     lhsp, astNodeExprp, k, count)

resetRdpRhs(l, index, lhsp, astNodeExprp, k, count) ==
    resetRdpNext(l.node, foreachNode(l.w, astNodeExprp, "releaseRhs", index),
                 lhsp, astNodeExprp, k, count)

resetRdpNext(lnode, r, lhsp, astNodeExprp, k, count) ==
    prependStmt(AstAssign(lnode, r.node),
                resetRdpLoop(r.w, lhsp, astNodeExprp, k + 1, count))

appendStmts(r, list) == [stmts |-> r.stmts \o list, w |-> r.w]

prependStmts(list, r) == [stmts |-> list \o r.stmts, w |-> r.w]

\* The resets of a release, given its retargeted enable clears (resetRdp_vec).
resetRdpVec(resetEnp, lhsp) ==
    resetRdpLoop(resetEnp.w, lhsp,
                 IF lhsp.type = "ArraySel" THEN lhsp.fromp ELSE lhsp, 1,
                 IF IsUnpack(ExprDType(resetEnp.w, lhsp))
                 THEN ExprDType(resetEnp.w, lhsp).elems ELSE 1)

linkRelease(resetEnp, lhsp) == appendStmts(resetRdpVec(resetEnp, lhsp), resetEnp.stmts)

linkReleaseClearFirst(resetEnp, lhsp) ==
    prependStmts(resetEnp.stmts, resetRdpVec(resetEnp, lhsp))

\* The retargeted enable clears of a release (the loop over resetEnp).
resetEnpOf(w, lhsp) ==
    transformAssigns(w, resetEnpChain(ExprDType(w, lhsp), lhsp),
                     [i \in DOMAIN resetEnpChain(ExprDType(w, lhsp), lhsp) |-> "m_enVscp"])

\* visit(AstRelease*) with the release statement linked back after its lowering
visitReleaseKeepNode(w, nodep) ==
    appendStmts(linkRelease(resetEnpOf(w, nodep.lhsp), nodep.lhsp), <<nodep>>)

\* visit(AstRelease*) with the enable clears linked before the resets
visitReleaseClearFirst(w, nodep) ==
    linkReleaseClearFirst(resetEnpOf(w, nodep.lhsp), nodep.lhsp)

\* visit(AstRelease*): the statements that replace the release (resetRdp_vec,
\* then resetEnp), and the world
visitRelease(w, nodep) == linkRelease(resetEnpOf(w, nodep.lhsp), nodep.lhsp)

\* ------------------------------------------------- reference retargeting
\* The foreachAndNext lambda without the switch on the access
replaceRefAnyAccess(w, nodep) ==
    IF tryGet(w, nodep.varScopep) /\ nodep.user2 = 0
    THEN [nodep EXCEPT !.varScopep = w.fcVsc[nodep.varScopep].m_rdVscp]
    ELSE nodep

\* The body of the foreachAndNext lambda for one AstVarRef.
replaceRef(w, nodep) ==
    IF tryGet(w, nodep.varScopep) /\ nodep.access = "READ" /\ nodep.user2 = 0
    THEN [nodep EXCEPT !.varScopep = w.fcVsc[nodep.varScopep].m_rdVscp]
    ELSE nodep

RECURSIVE flatten(_)
flatten(seqs) == IF seqs = <<>> THEN <<>> ELSE Head(seqs) \o flatten(Tail(seqs))

\* The references of an expression, in traversal order.
RECURSIVE refsOf(_)
refsOf(e) ==
    IF e.type = "VarRef" THEN <<e>>
    ELSE flatten([i \in DOMAIN children(e) |-> refsOf(children(e)[i])])

RECURSIVE mapRefs(_, _)
mapRefs(w, e) ==
    IF e.type = "VarRef" THEN replaceRef(w, e)
    ELSE [f \in DOMAIN e |->
            IF f \in Range(childFields(e)) THEN mapRefs(w, e[f]) ELSE e[f]]

\* The expressions a statement holds.
stmtExprs(s) == IF "rhsp" \in DOMAIN s THEN <<s.lhsp, s.rhsp>> ELSE <<s.lhsp>>

stmtRefs(s) == flatten([i \in DOMAIN stmtExprs(s) |-> refsOf(stmtExprs(s)[i])])

listRefs(list) == flatten([i \in DOMAIN list |-> stmtRefs(list[i])])

blockRefs(blocks) == flatten([i \in DOMAIN blocks |-> listRefs(blocks[i].stmtsp)])

mapStmt(w, s) ==
    [f \in DOMAIN s |-> IF f \in {"lhsp", "rhsp"} THEN mapRefs(w, s[f]) ELSE s[f]]

mapStmts(w, list) == [i \in DOMAIN list |-> mapStmt(w, list[i])]

mapBlocks(w, blocks) ==
    [i \in DOMAIN blocks |-> [blocks[i] EXCEPT !.stmtsp = mapStmts(w, @)]]

\* The references the retargeting reports: read-write references to a signal
\* that has force components.
refErrors(w, refs) ==
    SelectSeq(refs, LAMBDA r : tryGet(w, r.varScopep) /\ r.access \notin {"READ", "WRITE"})

errorDiags(refs) == [i \in DOMAIN refs |-> [code |-> "error", ref |-> refs[i]]]

\* ------------------------------------------------------ the input netlist
X1 == AstVarScope(1, "x")
X2 == AstVarScope(2, "x")
Y1 == AstVarScope(1, "y")

\* The types signal x is given: non-ranged scalar, ranged, and unpacked arrays
\* of either.
XTypes ==
    {BitDType, RangedDType(RangedWidth),
     UnpackArrayDType(BitDType, NumElems),
     UnpackArrayDType(RangedDType(RangedWidth), NumElems)}

\* The lvalues of the force and release statements of the input: x in either
\* scope, the first and the last element of an unpacked array, the
\* concatenation {x, y} of a signal that is not an array.
LValues(dt) ==
    {AstVarRef(X1, "WRITE"), AstVarRef(X2, "WRITE")}
    \cup (IF IsUnpack(dt)
          THEN {AstArraySel(AstVarRef(X1, "WRITE"), IndexConst(i)) : i \in {0, dt.elems - 1}}
          ELSE {AstConcat(AstVarRef(X1, "WRITE"), AstVarRef(Y1, "WRITE"))})

ElemRead(dt) ==
    IF IsUnpack(dt) THEN AstArraySel(AstVarRef(X1, "READ"), IndexConst(0))
    ELSE AstVarRef(X1, "READ")

ElemWrite(dt) ==
    IF IsUnpack(dt) THEN AstArraySel(AstVarRef(X1, "WRITE"), IndexConst(0))
    ELSE AstVarRef(X1, "WRITE")

\* The value forced, of the lvalue's type: a read of x, or a constant for the
\* concatenation.
RValue(dt, lhsp) ==
    CASE lhsp.type = "Concat" -> AstConst(1, WidthOf(dt) + RangedWidth)
      [] lhsp.type = "VarRef" -> AstVarRef(X1, "READ")
      [] OTHER -> ElemRead(dt)

AstStmtExpr(exprp) == [type |-> "StmtExpr", lhsp |-> exprp]

StmtPool(dt) ==
    {AstAssignForce(l, RValue(dt, l)) : l \in LValues(dt)}
    \cup {AstRelease(l) : l \in LValues(dt)}
    \cup {AstAssign(ElemWrite(dt), ElemRead(dt)),
          AstStmtExpr(AstVarRef(X2, "READWRITE"))}

\* ------------------------------------------------------------ the visitor
Phases == <<"vars1", "stmts", "vars2", "retarget", "done">>

PhaseLen(p, sv, st) ==
    CASE p = "vars1" -> Len(sv[1])
      [] p = "stmts" -> Len(st)
      [] p = "vars2" -> Len(sv[2])
      [] OTHER -> 1

\* The position of the traversal at element i of phase number p: the next
\* list that has an element left.
RECURSIVE NextPos(_, _, _, _)
NextPos(p, i, sv, st) ==
    IF i <= PhaseLen(Phases[p], sv, st) THEN [pc |-> Phases[p], idx |-> i]
    ELSE NextPos(p + 1, 1, sv, st)

PhaseNo(p) == CHOOSE n \in DOMAIN Phases : Phases[n] = p

SetWorld(w) ==
    /\ modVars' = w.modVars
    /\ scopeVars' = w.scopeVars
    /\ scopeBlocks' = w.scopeBlocks
    /\ fcVar' = w.fcVar
    /\ fcVsc' = w.fcVsc
    /\ diags' = w.diags
    /\ got' = w.got
    /\ nAlloc' = w.nAlloc

MoveTo(pos) == pc' = pos.pc /\ idx' = pos.idx

sigUserRWPublic(w, name) ==
    [w EXCEPT !.modVars =
        [i \in DOMAIN @ |-> IF @[i].name = name
                            THEN [@[i] EXCEPT !.sigUserRWPublic = TRUE] ELSE @[i]]]

\* visit(AstVarScope*): the world after the visit
markPublic(w1, fc) ==
    sigUserRWPublic(sigUserRWPublic(w1, fc.m_enVscp.varp), fc.m_valVscp.varp)

markComponents(w1, nodep) == markPublic(w1, w1.fcVsc[nodep])

visitVarScope(w, nodep) ==
    IF VarOf(w, nodep).isForceable
    THEN markComponents(getForceComponents(w, nodep), nodep)
    ELSE w

PassInit ==
    \E dt \in XTypes, net \in BOOLEAN, frc \in BOOLEAN, pio \in BOOLEAN :
      \E n \in 0..MaxStmts : \E prog \in [1..n -> StmtPool(dt)] :
        /\ modVars = <<[AstVar(IF net THEN "WIRE" ELSE "VAR", "x", dt) EXCEPT
                           !.isForceable = frc, !.isPrimaryIO = pio,
                           !.isContinuously = net],
                       AstVar("VAR", "y", RangedDType(RangedWidth))>>
        /\ scopeVars = << <<X1, Y1>>, <<X2>> >>
        /\ scopeBlocks = << <<>>, <<>> >>
        /\ stmts = prog
        /\ input = prog
        /\ fcVar = [v \in {} |-> 0]
        /\ fcVsc = [v \in {} |-> 0]
        /\ diags = <<>>
        /\ got = {}
        /\ nAlloc = 0
        /\ pc = "vars1"
        /\ idx = 1

\* VNRelinker::relink: the statement under the cursor is replaced by the
\* statements of r, and the tree becomes r's.
Replace(r) ==
    /\ SetWorld(r.w)
    /\ stmts' = SubSeq(stmts, 1, idx - 1) \o r.stmts \o SubSeq(stmts, idx + 1, Len(stmts))

VisitVarScope ==
    /\ pc \in {"vars1", "vars2"}
    /\ SetWorld(visitVarScope(World, scopeVars[IF pc = "vars1" THEN 1 ELSE 2][idx]))
    /\ MoveTo(NextPos(PhaseNo(pc), idx + 1, scopeVars', stmts))
    /\ UNCHANGED <<stmts, input, mem, last>>

VisitAssignForce ==
    /\ pc = "stmts"
    /\ stmts[idx].type = "AssignForce"
    /\ Replace(visitAssignForce(World, stmts[idx]))
    /\ UNCHANGED <<input, pc, idx, mem, last>>

VisitRelease ==
    /\ pc = "stmts"
    /\ stmts[idx].type = "Release"
    /\ Replace(visitRelease(World, stmts[idx]))
    /\ UNCHANGED <<input, pc, idx, mem, last>>

\* visit(AstNode*) of any other statement: nothing below it is changed
VisitNode ==
    /\ pc = "stmts"
    /\ stmts[idx].type \notin {"AssignForce", "Release"}
    /\ MoveTo(NextPos(PhaseNo(pc), idx + 1, scopeVars, stmts))
    /\ UNCHANGED <<modVars, scopeVars, scopeBlocks, stmts, fcVar, fcVsc, diags, got,
                   nAlloc, input, mem, last>>

\* Every reference of the netlist, in traversal order.
RefsOfNetlist(st, blocks) == listRefs(st) \o blockRefs(blocks[1]) \o blockRefs(blocks[2])

AllRefs == RefsOfNetlist(stmts, scopeBlocks)

\* The second traversal of the constructor: every reference of the netlist
Retarget ==
    /\ pc = "retarget"
    /\ stmts' = mapStmts(World, stmts)
    /\ scopeBlocks' = [s \in DOMAIN scopeBlocks |-> mapBlocks(World, scopeBlocks[s])]
    /\ diags' = diags \o errorDiags(refErrors(World, AllRefs))
    /\ pc' = "done"
    /\ UNCHANGED <<modVars, scopeVars, fcVar, fcVsc, got, nAlloc, input, idx, mem, last>>

Init ==
    /\ PassInit
    /\ mem = <<>>
    /\ last = <<>>

Next ==
    \/ VisitVarScope
    \/ VisitAssignForce
    \/ VisitRelease
    \/ VisitNode
    \/ Retarget

Spec == Init /\ [][Next]_vars

\* =========================================== evaluation of the lowered netlist
\* The lowered netlist is evaluated statement by statement: a procedural
\* statement when the process reaches it, a continuous assignment whenever it
\* is (re-)evaluated.  Signals are two-state: a scalar is an integer of its
\* width, an unpacked array a function from its indices to such integers.
V1 == AstVarScope(1, "v")
D1 == AstVarScope(1, "d")

RECURSIVE BitAnd(_, _, _)
BitAnd(a, b, n) ==
    IF n = 0 THEN 0
    ELSE (a % 2) * (b % 2) + 2 * BitAnd(a \div 2, b \div 2, n - 1)

\* ~a on n bits
BitNot(a, n) == Pow2(n) - 1 - (a % Pow2(n))

\* a | b == ~(~a & ~b)
BitOr(a, b, n) == BitNot(BitAnd(BitNot(a, n), BitNot(b, n), n), n)

\* The value of a node, given the values of its operands.
EvalNode(type, vals, width) ==
    CASE type = "ArraySel" -> vals[1][vals[2]]
      [] type = "Sel" -> (vals[1] \div Pow2(vals[2])) % Pow2(vals[3])
      [] type = "Cond" -> IF vals[1] # 0 THEN vals[2] ELSE vals[3]
      [] type = "And" -> BitAnd(vals[1], vals[2], width)
      [] type = "Or" -> BitOr(vals[1], vals[2], width)
      [] type = "Not" -> BitNot(vals[1], width)

RECURSIVE EvalExpr(_, _, _)
EvalExpr(w, m, e) ==
    CASE e.type = "VarRef" -> m[e.varScopep]
      [] e.type = "Const" -> e.num
      [] OTHER -> EvalNode(e.type,
                           [i \in DOMAIN children(e) |-> EvalExpr(w, m, children(e)[i])],
                           WidthOf(ExprDType(w, e)))

\* 'old' with the bits lsb .. lsb + width - 1 replaced by those of 'value'
SetBits(old, lsb, width, value) ==
    old - ((old \div Pow2(lsb)) % Pow2(width)) * Pow2(lsb)
        + (value % Pow2(width)) * Pow2(lsb)

\* The memory after 'value' is stored to the lvalue: a signal, one element of
\* an unpacked array, or a part select of a signal; the value is truncated to
\* the width of what is written.
Store(w, m, lhsp, value) ==
    CASE lhsp.type = "ArraySel" ->
            [m EXCEPT ![lhsp.fromp.varScopep][EvalExpr(w, m, lhsp.bitp)] =
                         value % Pow2(WidthOf(VarOf(w, lhsp.fromp.varScopep).dtype))]
      [] lhsp.type = "Sel" ->
            [m EXCEPT ![lhsp.fromp.varScopep] =
                         SetBits(@, lhsp.lsbp.num, lhsp.widthp.num, value)]
      [] OTHER ->
            [m EXCEPT ![lhsp.varScopep] =
                         value % Pow2(WidthOf(VarOf(w, lhsp.varScopep).dtype))]

ExecAssign(w, m, s) == Store(w, m, s.lhsp, EvalExpr(w, m, s.rhsp))

RECURSIVE ExecStmts(_, _, _)
ExecStmts(w, m, list) ==
    IF list = <<>> THEN m ELSE ExecStmts(w, ExecAssign(w, m, Head(list)), Tail(list))

ZeroOf(dt) == IF IsUnpack(dt) THEN [i \in 0..(dt.elems - 1) |-> 0] ELSE 0

\* The statements of all blocks of the given name in scope 1.
BlockStmts(blocks, name) ==
    flatten([i \in DOMAIN blocks |->
                IF blocks[i].name = name THEN blocks[i].stmtsp ELSE <<>>])

\* ------------------------------------------------- the pass as one function
lowerOne(w, s) ==
    CASE s.type = "AssignForce" -> visitAssignForce(w, s)
      [] s.type = "Release" -> visitRelease(w, s)
      [] OTHER -> [stmts |-> <<s>>, w |-> w]

\* iterateAndNextNull over the statements
RECURSIVE lowerStmts(_, _)
RECURSIVE lowerRest(_, _)
lowerStmts(w, list) ==
    IF list = <<>> THEN [stmts |-> <<>>, w |-> w]
    ELSE lowerRest(lowerOne(w, Head(list)), Tail(list))

lowerRest(r, rest) == prependStmts(r.stmts, lowerStmts(r.w, rest))

\* the retargeting of the statements and of every block
retargetAll(r) ==
    [stmts |-> mapStmts(r.w, r.stmts),
     w |-> [r.w EXCEPT !.scopeBlocks = [sc \in DOMAIN @ |-> mapBlocks(r.w, @[sc])]]]

\* The constructor on a netlist without forceable signal and without
\* read-write reference: the lowering, then the retargeting.
RunPass(w, prog) == retargetAll(lowerStmts(w, prog))

\* ------------------------------------------------------- the test netlist
\* Signal x of type dt (a net or a variable), the value source v, the net's
\* driver input d, and the process:
\*    force x = v;  release x;  x = v;  y = x;      (x[0] for an array)
\* plus the net's driver, assign x = d.
SimWorld(dt, net) ==
    [modVars |-> <<[AstVar(IF net THEN "WIRE" ELSE "VAR", "x", dt) EXCEPT
                       !.isContinuously = net],
                   AstVar("VAR", "y", RangedDType(RangedWidth)),
                   AstVar("VAR", "v", basicp(dt)),
                   AstVar("VAR", "d", basicp(dt))>>,
     scopeVars |-> << <<X1, Y1, V1, D1>>, <<X2>> >>,
     scopeBlocks |-> << <<>>, <<>> >>,
     fcVar |-> [k \in {} |-> 0],
     fcVsc |-> [k \in {} |-> 0],
     diags |-> <<>>,
     got |-> {},
     nAlloc |-> 0]

SimProg(dt) ==
    <<AstAssignForce(ElemWrite(dt), AstVarRef(V1, "READ")),
      AstRelease(ElemWrite(dt)),
      AstAssign(ElemWrite(dt), AstVarRef(V1, "READ")),
      AstAssign(AstVarRef(Y1, "WRITE"), ElemRead(dt)),
      AstAssignW(ElemWrite(dt), AstVarRef(D1, "READ"))>>

\* The lowered process, from its end: the driver, the read, the write, the two
\* statements of the release, and before them the statements of the force.
DriverStmt == stmts[Len(stmts)]
ReadStmt == stmts[Len(stmts) - 1]
WriteStmt == stmts[Len(stmts) - 2]
ReleaseStmts == SubSeq(stmts, Len(stmts) - 4, Len(stmts) - 3)
ForceStmts == SubSeq(stmts, 1, Len(stmts) - 5)

\* All signals zero, then the "force-init" blocks.
SimMem(w) ==
    ExecStmts(w, [k \in Range(w.scopeVars[1]) |-> ZeroOf(VarOf(w, k).dtype)],
              BlockStmts(w.scopeBlocks[1], "force-init"))

SimStart(r, prog) ==
    /\ modVars = r.w.modVars
    /\ scopeVars = r.w.scopeVars
    /\ scopeBlocks = r.w.scopeBlocks
    /\ fcVar = r.w.fcVar
    /\ fcVsc = r.w.fcVsc
    /\ diags = r.w.diags
    /\ got = r.w.got
    /\ nAlloc = r.w.nAlloc
    /\ stmts = r.stmts
    /\ input = prog
    /\ pc = "done"
    /\ idx = 1
    /\ mem = SimMem(r.w)
    /\ last = [state |-> "none", forced |-> 0, combSince |-> FALSE,
               wrote |-> FALSE, written |-> 0, combSinceWrite |-> FALSE,
               fresh |-> FALSE]

SimInit ==
    \E dt \in XTypes, net \in BOOLEAN :
        SimStart(RunPass(SimWorld(dt, net), SimProg(dt)), SimProg(dt))

IsNet == VarNamed(World, "x").isContinuously

\* The 8 bit signal of the part-select process, and the values it is given:
\* all bits clear, the two alternating patterns, all bits set.
ByteDType == RangedDType(8)
ByteValues == {0, 85, 170, 255}

\* The values a signal of x's type is written: every value of its width.
Values ==
    IF VarNamed(World, "x").dtype = ByteDType THEN ByteValues
    ELSE 0..(Pow2(WidthOf(VarNamed(World, "x").dtype)) - 1)

\* the process executes the lowered force with v = val
SimForce ==
    \E val \in Values :
      /\ mem' = ExecStmts(World, [mem EXCEPT ![V1] = val], ForceStmts)
      /\ last' = [state |-> "forced",
                  forced |-> EvalExpr(World, [mem EXCEPT ![V1] = val], input[1].rhsp),
                  combSince |-> FALSE,
                  wrote |-> FALSE, written |-> 0, combSinceWrite |-> FALSE,
                  fresh |-> FALSE]
      /\ UNCHANGED passVars

\* the process executes the lowered release (the reset of an element of a net
\* array assigns the whole array to the element, which has no value: it is not
\* evaluated)
SimRelease ==
    /\ ~(IsNet /\ IsUnpack(VarNamed(World, "x").dtype))
    /\ mem' = ExecStmts(World, mem, ReleaseStmts)
    /\ last' = [last EXCEPT !.state = IF @ = "none" THEN "none" ELSE "released",
                            !.combSince = FALSE, !.wrote = FALSE,
                            !.combSinceWrite = FALSE, !.fresh = TRUE]
    /\ UNCHANGED passVars

\* the process executes x = v with v = val (a variable only)
SimWrite ==
    \E val \in Values :
      /\ ~IsNet
      /\ mem' = ExecStmts(World, [mem EXCEPT ![V1] = val], <<WriteStmt>>)
      /\ last' = [last EXCEPT !.wrote = TRUE, !.written = val,
                              !.combSinceWrite = FALSE, !.fresh = FALSE]
      /\ UNCHANGED passVars

\* the driver's input becomes val and the driver is evaluated (a net only)
SimDrive ==
    \E val \in Values :
      /\ IsNet
      /\ mem' = ExecStmts(World, [mem EXCEPT ![D1] = val], <<DriverStmt>>)
      /\ last' = [last EXCEPT !.combSinceWrite = FALSE, !.fresh = FALSE]
      /\ UNCHANGED passVars

\* the "force-comb" block is evaluated
SimOverride ==
    /\ mem' = ExecStmts(World, mem, BlockStmts(scopeBlocks[1], "force-comb"))
    /\ last' = [last EXCEPT !.combSince = TRUE, !.combSinceWrite = TRUE,
                            !.fresh = FALSE]
    /\ UNCHANGED passVars

SimNext ==
    \/ SimForce
    \/ SimRelease
    \/ SimWrite
    \/ SimDrive
    \/ SimOverride

SimSpec == SimInit /\ [][SimNext]_vars

\* ------------------------------------------------- the part-select process
\* The 8 bit signal x (a net or a variable) and the process:
\*    force x[2:0] = 3'b101;  release x[2:0];  x = v;  y = x;
\* plus the net's driver, assign x = d.
XSel == AstSel(AstVarRef(X1, "WRITE"), IndexConst(0), IndexConst(3))

SelProg ==
    <<AstAssignForce(XSel, AstConst(5, 3)),
      AstRelease(XSel),
      AstAssign(AstVarRef(X1, "WRITE"), AstVarRef(V1, "READ")),
      AstAssign(AstVarRef(Y1, "WRITE"), AstVarRef(X1, "READ")),
      AstAssignW(AstVarRef(X1, "WRITE"), AstVarRef(D1, "READ"))>>

SelInit ==
    \E net \in BOOLEAN : SimStart(RunPass(SimWorld(ByteDType, net), SelProg), SelProg)

SelSpec == SelInit /\ [][SimNext]_vars

\* What a read of x yields: the value of the right hand side of y = x.
ReadX == EvalExpr(World, mem, ReadStmt.rhsp)

\* ================================================================ claims
IsForceOrRelease(s) == s.type \in {"AssignForce", "Release"}

\* The variable scopes an expression writes, in traversal order.
WriteTargets(e) ==
    LET ws == SelectSeq(refsOf(e), LAMBDA r : r.access = "WRITE")
    IN [i \in DOMAIN ws |-> ws[i].varScopep]

\* The variable scopes an expression reads, in traversal order.
ReadTargets(e) ==
    LET rs == SelectSeq(refsOf(e), LAMBDA r : r.access = "READ")
    IN [i \in DOMAIN rs |-> rs[i].varScopep]

\* The expression with the target of every reference erased.
RECURSIVE Skeleton(_)
Skeleton(e) ==
    IF e.type = "VarRef" THEN [e EXCEPT !.varScopep = "_"]
    ELSE [f \in DOMAIN e |-> IF f \in Range(childFields(e)) THEN Skeleton(e[f]) ELSE e[f]]

\* The element selects of an expression, in traversal order.
RECURSIVE SelIndices(_)
SelIndices(e) ==
    IF e.type = "ArraySel" THEN <<e.bitp>> \o SelIndices(e.fromp)
    ELSE flatten([i \in DOMAIN children(e) |-> SelIndices(children(e)[i])])

ShadowOf(vscp, suffix) == AstVarScope(vscp.scopep, vscp.varp \o suffix)

\* The statement under the cursor has been replaced by k statements.
ReplacedBy(k) ==
    /\ Len(stmts') = Len(stmts) - 1 + k
    /\ SubSeq(stmts', 1, idx - 1) = SubSeq(stmts, 1, idx - 1)
    /\ SubSeq(stmts', idx + k, Len(stmts')) = SubSeq(stmts, idx + 1, Len(stmts))

\* The blocks of name 'name' the pass added for variable scope v.
BlocksOf(v, name) ==
    {i \in DOMAIN scopeBlocks[v.scopep] :
        /\ scopeBlocks[v.scopep][i].name = name
        /\ scopeBlocks[v.scopep][i].fileline = v.varp}

Occurrences(list, x) == Cardinality({i \in DOMAIN list : list[i] = x})

Declarations(name) == Cardinality({i \in DOMAIN modVars : modVars[i].name = name})

\* ---------------------------------------------------------------- C1
C1_Replaced ==
    (pc = "stmts" /\ stmts' # stmts) =>
        /\ IsForceOrRelease(stmts[idx])
        /\ \E k \in 1..Len(stmts') :
              /\ ReplacedBy(k)
              /\ \A j \in idx..(idx + k - 1) : stmts'[j].type = "Assign"

\* C1: once the visitor has walked the statements, the tree holds no force and
\* no release statement; every step that changes the statement list replaces
\* the force or release under the cursor, in place, by plain assignments only.
C1_NoResidual ==
    /\ [](pc \in {"vars2", "retarget", "done"} =>
            \A i \in DOMAIN stmts : ~IsForceOrRelease(stmts[i]))
    /\ [][C1_Replaced]_vars

C1_Witness ==
    /\ pc = "done"
    /\ \E i, j \in DOMAIN input :
          input[i].type = "AssignForce" /\ input[j].type = "Release"
    /\ \A i \in DOMAIN stmts : stmts[i].type \in {"Assign", "StmtExpr"}

\* ---------------------------------------------------------------- C2
\* C2: every request for a variable scope returned the same components object;
\* a declaration with force components has exactly one read, enable and value
\* declaration; a variable scope with force components has exactly one read,
\* enable and value instance, one "force-init" and one "force-comb" block; a
\* variable scope without force components has none of these.
C2_ShadowUnique ==
    /\ \A p, q \in got : p[1] = q[1] => p[2] = q[2]
    /\ \A p \in got : p[1] \in DOMAIN fcVsc /\ fcVsc[p[1]] = p[2]
    /\ \A sv \in DOMAIN fcVar :
          /\ Declarations(sv \o "__VforceRd") = 1
          /\ Declarations(sv \o "__VforceEn") = 1
          /\ Declarations(sv \o "__VforceVal") = 1
    /\ \A v \in DOMAIN fcVsc :
          /\ v.varp \in DOMAIN fcVar
          /\ fcVsc[v].m_rdVscp = ShadowOf(v, "__VforceRd")
          /\ fcVsc[v].m_enVscp = ShadowOf(v, "__VforceEn")
          /\ fcVsc[v].m_valVscp = ShadowOf(v, "__VforceVal")
          /\ Occurrences(scopeVars[v.scopep], fcVsc[v].m_rdVscp) = 1
          /\ Occurrences(scopeVars[v.scopep], fcVsc[v].m_enVscp) = 1
          /\ Occurrences(scopeVars[v.scopep], fcVsc[v].m_valVscp) = 1
          /\ Cardinality(BlocksOf(v, "force-init")) = 1
          /\ Cardinality(BlocksOf(v, "force-comb")) = 1
    /\ \A s \in DOMAIN scopeVars : \A i \in DOMAIN scopeVars[s] :
          scopeVars[s][i] \notin DOMAIN fcVsc =>
              /\ BlocksOf(scopeVars[s][i], "force-init") = {}
              /\ BlocksOf(scopeVars[s][i], "force-comb") = {}
    /\ Cardinality({fcVsc[v].id : v \in DOMAIN fcVsc}) = Cardinality(DOMAIN fcVsc)
    /\ nAlloc = Cardinality(DOMAIN fcVsc)

\* x is forceable, both its scope instances have components, and the input
\* both forces and releases x in scope 1: the components of (x, 1) were
\* requested by the materialization, a force and a release.
C2_Witness ==
    /\ pc = "done"
    /\ VarNamed(World, "x").isForceable
    /\ {X1, X2} \subseteq DOMAIN fcVsc
    /\ \E i, j \in DOMAIN input :
          /\ input[i] = AstAssignForce(AstVarRef(X1, "WRITE"), AstVarRef(X1, "READ"))
          /\ input[j] = AstRelease(AstVarRef(X1, "WRITE"))

\* ---------------------------------------------------------------- C3
ForceLowered ==
    LET lhsp == stmts[idx].lhsp
        rhsp == stmts[idx].rhsp
        dt == ExprDType(World, lhsp)
        k == IF isRangedDType(dt) THEN WidthOf(dt) ELSE 1
        targets == WriteTargets(lhsp)
        Retargeted(s, suffix) ==
            /\ s.type = "Assign"
            /\ Skeleton(s.lhsp) = Skeleton(lhsp)
            /\ WriteTargets(s.lhsp) =
                  [i \in DOMAIN targets |-> ShadowOf(targets[i], suffix)]
    IN /\ ReplacedBy(3)
       /\ Retargeted(stmts'[idx], "__VforceEn")
       /\ stmts'[idx].rhsp = [type |-> "Const", num |-> Pow2(k) - 1, width |-> k]
       /\ Retargeted(stmts'[idx + 1], "__VforceVal")
       /\ stmts'[idx + 1].rhsp = rhsp
       /\ Retargeted(stmts'[idx + 2], "__VforceRd")
       /\ stmts'[idx + 2].rhsp = rhsp
       /\ \A i \in DOMAIN targets :
             /\ targets[i] \in DOMAIN fcVsc'
             /\ fcVsc'[targets[i]].m_enVscp = ShadowOf(targets[i], "__VforceEn")
             /\ fcVsc'[targets[i]].m_valVscp = ShadowOf(targets[i], "__VforceVal")
             /\ fcVsc'[targets[i]].m_rdVscp = ShadowOf(targets[i], "__VforceRd")

\* C3: the visit of a force statement replaces it, in place, by three
\* assignments in the order enable = all ones (of the lvalue's width when it is
\* ranged, else one bit), value = R, read signal = R, whose left hand sides are
\* the force's with every written reference retargeted to the enable, value
\* and read instance of the variable scope it wrote.
C3_ForceLowering ==
    [][(pc = "stmts" /\ stmts[idx].type = "AssignForce") => ForceLowered]_vars

\* The force of the concatenation {x, y} has just been lowered.
C3_Witness ==
    /\ pc = "stmts"
    /\ idx + 2 <= Len(stmts)
    /\ \E i \in DOMAIN input :
          input[i].type = "AssignForce" /\ input[i].lhsp.type = "Concat"
    /\ stmts[idx].type = "Assign"
    /\ stmts[idx].rhsp.type = "Const"
    /\ WriteTargets(stmts[idx].lhsp)
          = <<ShadowOf(X1, "__VforceEn"), ShadowOf(Y1, "__VforceEn")>>
    /\ WriteTargets(stmts[idx + 1].lhsp)
          = <<ShadowOf(X1, "__VforceVal"), ShadowOf(Y1, "__VforceVal")>>
    /\ WriteTargets(stmts[idx + 2].lhsp)
          = <<ShadowOf(X1, "__VforceRd"), ShadowOf(Y1, "__VforceRd")>>

\* ---------------------------------------------------------------- C4
\* C4: when the most recent of the forces and releases executed is a force of
\* x to v and the override block has not been evaluated since, a read of x
\* yields v.
C4_SameStepVisibility ==
    (last.state = "forced" /\ ~last.combSince) => ReadX = last.forced

\* x has been forced to a value other than the one it held, the override has
\* not been evaluated, and the read, which goes to the read signal, yields it
\* while x itself still holds the old value.
C4_Witness ==
    /\ last.state = "forced"
    /\ ~last.combSince
    /\ last.forced # 0
    /\ ReadTargets(ReadStmt.rhsp) = <<ShadowOf(X1, "__VforceRd")>>
    /\ ReadX = last.forced
    /\ EvalExpr(World, mem, ElemRead(VarNamed(World, "x").dtype)) # last.forced

\* ---------------------------------------------------------------- C8
\* C8: for a net x that was forced, right after the lowered release has
\* executed a read of x yields the value d the driver supplies.
C8_NetReleaseResync ==
    (IsNet /\ last.state = "released" /\ last.fresh) => ReadX = mem[D1]

\* ---------------------------------------------------------------- C9
\* C9: for a variable x last forced to v and then released, a read of x yields
\* v as long as x has not been written; after a write x = w and an evaluation
\* of the override block it yields w.
C9_VariableReleaseRetention ==
    (~IsNet /\ last.state = "released") =>
        /\ ~last.wrote => ReadX = last.forced
        /\ (last.wrote /\ last.combSinceWrite) => ReadX = last.written

\* --------------------------------------------------------------- C11
\* the bits lsb .. lsb + width - 1 of a value
Bits(value, lsb, width) == (value \div Pow2(lsb)) % Pow2(width)

\* C11: on the 8 bit signal x, while the force x[2:0] = 3'b101 is in effect
\* and the override block has been evaluated since the force and since the
\* last write or drive of x, bits 2:0 of what a read of x yields are 101, bits
\* 7:3 are those of the true signal, and the enable has bits 2:0 set and bits
\* 7:3 clear.
C11_SubRangeForce ==
    (last.state = "forced" /\ last.combSince /\ last.combSinceWrite) =>
        /\ Bits(ReadX, 0, 3) = 5
        /\ Bits(ReadX, 3, 5) = Bits(mem[X1], 3, 5)
        /\ mem[ShadowOf(X1, "__VforceEn")] = 7

\* --------------------------------------------------------------- C12
\* The statement writes exactly the element 'bitp' of the enable, value or read
\* signal of variable scope v (or of v itself when it is a variable), from a
\* value of the element's type.
WritesElementOnly(s, v, bitp, mv) ==
    /\ s.type = "Assign"
    /\ s.lhsp.type = "ArraySel"
    /\ s.lhsp.bitp = bitp
    /\ s.lhsp.fromp.type = "VarRef"
    /\ s.lhsp.fromp.access = "WRITE"
    /\ s.lhsp.fromp.varScopep \in
          {ShadowOf(v, "__VforceEn"), ShadowOf(v, "__VforceVal"), ShadowOf(v, "__VforceRd")}
          \cup (IF VarOf([modVars |-> mv], v).isContinuously THEN {} ELSE {v})
    /\ ~IsUnpack(ExprDType([modVars |-> mv], s.rhsp))

\* C12: the statements generated for the force or the release of one element
\* a[i] of an unpacked array each write element i, and no other element, of
\* a's enable, value or read signal (or of a itself when a is a variable), and
\* each assigns a value of the element's type.
C12_PerElementForce ==
    [][(/\ pc = "stmts"
        /\ IsForceOrRelease(stmts[idx])
        /\ stmts[idx].lhsp.type = "ArraySel") =>
          \A j \in idx..(idx + Len(stmts') - Len(stmts)) :
              WritesElementOnly(stmts'[j], stmts[idx].lhsp.fromp.varScopep,
                                stmts[idx].lhsp.bitp, modVars')]_vars

\* --------------------------------------------------------------- C13
\* The number of Unsupported diagnostics reported for a declaration
Unsupported(varp) ==
    Cardinality({i \in DOMAIN diags :
                    diags[i].code = "E_UNSUPPORTED" /\ diags[i].varp = varp})

IsUnsupported(d) == d.code = "E_UNSUPPORTED"

IsSupported(d) == ~IsUnsupported(d)

\* The tree and the pass's state with no declaration a primary input/output
\* and without the Unsupported diagnostics.
AsNonPort(w) ==
    [w EXCEPT
        !.modVars = [i \in DOMAIN @ |-> [@[i] EXCEPT !.isPrimaryIO = FALSE]],
        !.diags = SelectSeq(@, IsSupported)]

\* The step from 'pre' (with statement list st, at position p, i) to 'post'
\* (with statement list st2) is the step the same tree takes when no
\* declaration is a primary input/output.
StepAsNonPort(pre, post, st, st2, p, i) ==
    CASE p \in {"vars1", "vars2"} ->
            AsNonPort(post)
              = visitVarScope(AsNonPort(pre), pre.scopeVars[IF p = "vars1" THEN 1 ELSE 2][i])
      [] p = "stmts" /\ st[i].type = "AssignForce" ->
            /\ AsNonPort(post) = visitAssignForce(AsNonPort(pre), st[i]).w
            /\ st2 = SubSeq(st, 1, i - 1) \o visitAssignForce(AsNonPort(pre), st[i]).stmts
                        \o SubSeq(st, i + 1, Len(st))
      [] p = "stmts" /\ st[i].type = "Release" ->
            /\ AsNonPort(post) = visitRelease(AsNonPort(pre), st[i]).w
            /\ st2 = SubSeq(st, 1, i - 1) \o visitRelease(AsNonPort(pre), st[i]).stmts
                        \o SubSeq(st, i + 1, Len(st))
      [] p = "retarget" ->
            /\ AsNonPort(post)
                 = [AsNonPort(pre) EXCEPT
                      !.scopeBlocks = [b \in DOMAIN @ |-> mapBlocks(AsNonPort(pre), @[b])],
                      !.diags = @ \o errorDiags(refErrors(AsNonPort(pre),
                                                          RefsOfNetlist(st, pre.scopeBlocks)))]
            /\ st2 = mapStmts(AsNonPort(pre), st)
      [] OTHER -> AsNonPort(post) = AsNonPort(pre) /\ st2 = st

C13_OncePerDeclaration ==
    \A i \in DOMAIN modVars :
        Unsupported(modVars[i].name) =
            IF modVars[i].isPrimaryIO /\ modVars[i].name \in DOMAIN fcVar THEN 1 ELSE 0

\* C13: a declaration that is a primary input/output has exactly one
\* Unsupported diagnostic once it has force components, however many variable
\* scopes, force/release statements and forceable markings asked for them, and
\* none before (no other declaration has any); and every step of the pass
\* builds the declarations, the variable scopes, the initializer, the override
\* block and the lowered statements exactly as it does when the signal is not a
\* primary input/output.
C13_UnsupportedPrimaryIO ==
    /\ []C13_OncePerDeclaration
    /\ [][\E pre \in {World} :
            \E post \in {[modVars |-> modVars', scopeVars |-> scopeVars',
                          scopeBlocks |-> scopeBlocks', fcVar |-> fcVar',
                          fcVsc |-> fcVsc', diags |-> diags', got |-> got',
                          nAlloc |-> nAlloc']} :
                StepAsNonPort(pre, post, stmts, stmts', pc, idx)]_vars

C13_Witness ==
    /\ pc = "done"
    /\ VarNamed(World, "x").isPrimaryIO
    /\ VarNamed(World, "x").isForceable
    /\ {X1, X2} \subseteq DOMAIN fcVsc
    /\ \E i, j \in DOMAIN input :
          input[i].type = "AssignForce" /\ input[j].type = "Release"
    /\ Unsupported("x") = 1
    /\ BlocksOf(X1, "force-init") # {} /\ BlocksOf(X2, "force-comb") # {}

\* ---------------------------------------------------------------- C5
\* The right hand side the override of variable scope v is to have: the mux of
\* a non-ranged signal, the mask of a ranged one, per element for an array.
IsOverrideOf(rhsp, v, dt) ==
    /\ rhsp.type = (IF isRangedDType(dt) THEN "Or" ELSE "Cond")
    /\ ReadTargets(rhsp) =
          (IF isRangedDType(dt)
           THEN <<fcVsc[v].m_enVscp, fcVsc[v].m_valVscp, fcVsc[v].m_enVscp, v>>
           ELSE <<fcVsc[v].m_enVscp, fcVsc[v].m_valVscp, v>>)

\* C5: the "force-comb" block of every variable scope with force components
\* drives the read signal, and nothing else, with the override expression of
\* the enable, the value and the original signal, element by element for an
\* unpacked array.  (Stated before the references are retargeted.)
C5_OverrideDrivesReadShadow ==
    pc # "done" =>
      \A v \in DOMAIN fcVsc : \A b \in BlocksOf(v, "force-comb") :
        LET stmtsp == scopeBlocks[v.scopep][b].stmtsp
            dt == VarOf(World, v).dtype
        IN /\ Len(stmtsp) = (IF IsUnpack(dt) THEN dt.elems ELSE 1)
           /\ \A i \in DOMAIN stmtsp :
                 /\ WriteTargets(stmtsp[i].lhsp) = <<fcVsc[v].m_rdVscp>>
                 /\ IsOverrideOf(stmtsp[i].rhsp, v, dt)
                 /\ IsUnpack(dt) =>
                       /\ SelIndices(stmtsp[i].lhsp) = <<IndexConst(i - 1)>>
                       /\ \A j \in DOMAIN SelIndices(stmtsp[i].rhsp) :
                             SelIndices(stmtsp[i].rhsp)[j] = IndexConst(i - 1)

\* ---------------------------------------------------------------- C6
Shadowed(r) == r.varScopep \in DOMAIN fcVsc

RetargetedAs(before, after) ==
    \E rw \in {{i \in DOMAIN before :
                   Shadowed(before[i]) /\ before[i].access = "READWRITE"}} :
       /\ Len(after) = Len(before)
       /\ \A i \in DOMAIN before :
             IF Shadowed(before[i]) /\ before[i].access = "READ" /\ before[i].user2 = 0
             THEN after[i] = [before[i] EXCEPT
                                 !.varScopep = ShadowOf(before[i].varScopep, "__VforceRd")]
             ELSE after[i] = before[i]
       /\ Len(diags') = Len(diags) + Cardinality(rw)
       /\ \A i \in rw :
             \E d \in (Len(diags) + 1)..Len(diags') :
                 diags'[d] = [code |-> "error", ref |-> before[i]]

RetargetedRefs ==
    \E before \in {AllRefs} : \E after \in {RefsOfNetlist(stmts', scopeBlocks')} :
       RetargetedAs(before, after)

\* C6: the retargeting redirects every read reference that is not tagged and
\* whose variable scope has force components to the read signal of that scope,
\* leaves every write reference, every tagged reference and every reference to
\* a variable scope without force components as it was, and reports one error
\* for every read-write reference to a variable scope with force components;
\* afterwards no untagged read reference to such a variable scope is left.
C6_ReadWriteSplit ==
    /\ [][pc = "retarget" => RetargetedRefs]_vars
    /\ [](pc = "done" =>
            \A r \in Range(AllRefs) : (Shadowed(r) /\ r.access = "READ") => r.user2 = 1)

\* After the retargeting: the statement of the input that wrote x from x
\* still writes x and now reads its read signal, and the read-write reference
\* to x in scope 2 has been reported.
C6_Witness ==
    /\ pc = "done"
    /\ {X1, X2} \subseteq DOMAIN fcVsc
    /\ \E i \in DOMAIN input : \E j \in DOMAIN refsOf(input[i].lhsp) :
          /\ refsOf(input[i].lhsp)[j].access = "READWRITE"
    /\ \E d \in DOMAIN diags : diags[d].code = "error"
    /\ \E i \in DOMAIN input : input[i].type = "Assign"
    /\ \E i \in DOMAIN stmts :
          /\ stmts[i].type = "Assign"
          /\ WriteTargets(stmts[i].lhsp) = <<X1>>
          /\ ReadTargets(stmts[i].rhsp) = <<ShadowOf(X1, "__VforceRd")>>

\* ---------------------------------------------------------------- C7
\* C7: in the "force-comb" block of every variable scope with force components
\* the read of the original signal is tagged (user2) from its construction on,
\* and the block never reads the read signal: before and after the
\* retargeting it reads the original.
C7_OverrideInputBypassed ==
    \A v \in DOMAIN fcVsc : \A b \in BlocksOf(v, "force-comb") :
      \A i \in DOMAIN scopeBlocks[v.scopep][b].stmtsp :
        LET refs == refsOf(scopeBlocks[v.scopep][b].stmtsp[i].rhsp)
        IN /\ \E j \in DOMAIN refs : refs[j].varScopep = v
           /\ \A j \in DOMAIN refs :
                 /\ refs[j].varScopep = v => refs[j].user2 = 1
                 /\ refs[j].varScopep # fcVsc[v].m_rdVscp

\* ---------------------------------------------------------------- C10
ReleaseLowered ==
    LET lhsp == stmts[idx].lhsp
        dt == ExprDType(World, lhsp)
        n == IF IsUnpack(dt) THEN dt.elems ELSE 1
        k == IF isRangedDType(dt) THEN WidthOf(dt) ELSE 1
        targets == WriteTargets(lhsp)
        Index(j) == IF lhsp.type = "ArraySel" THEN lhsp.bitp ELSE IndexConst(j - 1)
        Selected(e, j) ==
            IF IsUnpack(dt) \/ lhsp.type = "ArraySel"
            THEN SelIndices(e) = <<Index(j)>> ELSE SelIndices(e) = <<>>
    IN /\ ReplacedBy(2 * n)
       /\ \A j \in 1..n :
             \* the resets: the read signal of a net, the variable itself
             /\ stmts'[idx + j - 1].type = "Assign"
             /\ WriteTargets(stmts'[idx + j - 1].lhsp) =
                   [i \in DOMAIN targets |->
                       IF VarOf(World, targets[i]).isContinuously
                       THEN ShadowOf(targets[i], "__VforceRd") ELSE targets[i]]
             /\ Selected(stmts'[idx + j - 1].lhsp, j)
             /\ stmts'[idx + j - 1].rhsp.type # "Const"
             \* the clears: the enable, to all zero
             /\ stmts'[idx + n + j - 1].type = "Assign"
             /\ WriteTargets(stmts'[idx + n + j - 1].lhsp) =
                   [i \in DOMAIN targets |-> ShadowOf(targets[i], "__VforceEn")]
             /\ Selected(stmts'[idx + n + j - 1].lhsp, j)
             /\ stmts'[idx + n + j - 1].rhsp = [type |-> "Const", num |-> 0, width |-> k]

====
